---- MODULE Spec2Model ----
(***************************************************************************)
(* State-machine model of the MTG cube builder (frpnz/cube-manager):       *)
(* the cube list and its handlers (src/src/App.tsx), the localStorage      *)
(* persistence (src/src/lib/storage.ts), the rotating backup ring and the  *)
(* Scryfall client (src/unnamed/part_001), the exporters                   *)
(* (src/unnamed/part_000) and the JSON importer (tail of App.tsx).         *)
(*                                                                         *)
(* Representation.                                                         *)
(*  - A JS number that may be non-finite is [k |-> "fin"|"nan"|"inf", v].  *)
(*  - A text held by localStorage or by a file is represented by the JSON  *)
(*    document it spells: [kind |-> "array"|"object"|"text"|"jsonnull"|    *)
(*    "malformed"] ("text" is a text of decimal digits, a JSON number);    *)
(*    getItem of a missing key is NoItem.  JSON.parse throws on            *)
(*    "malformed".                                                         *)
(*  - An object inside a JSON document (a "row") is a function from the    *)
(*    keys it has to tagged values [t |-> "string"|"number"|"null", s, n]. *)
(*  - An in-memory CubeEntry is a record with every field of the type;     *)
(*    an optional field that is undefined or missing reads Undefined.      *)
(*    Of the optional fields, mana_cost and thumb are kept (cmc and        *)
(*    color_identity behave as they do).                                   *)
(***************************************************************************)
EXTENDS Integers, Sequences, FiniteSets, TLC

VARIABLES
  cube,               \* App.tsx:51   useState<CubeEntry[]>
  pending,            \* App.tsx:56   useState<Pending | null>
  pendingQty,         \* App.tsx:57   useState<number>
  ls,                 \* window.localStorage: key -> text
  now,                \* Date.now()
  lastCheckpointRef,  \* App.tsx:67
  dirtyRef,           \* App.tsx:68
  lastOp,             \* history: the handler that ran last, "...Failed" when
                      \* it ended without setting the cube
  nops,               \* history: handlers run
  nticks,             \* history: clock advances
  firstChangeRotated, \* history: did the first list change since the page
                      \* was loaded take a checkpoint ("none" before it)
  query,              \* App.tsx:46   useState("")
  suggestions,        \* App.tsx:47   useState<string[]>
  cacheRef,           \* App.tsx:65   Map: lowercase trimmed text -> suggestions
  error,              \* App.tsx:52   useState<string | null>
  alerted,            \* the text of the last window.alert, or Undefined
  timer,              \* the argument of the pending debounce timer, or NoTimer
  inflight,           \* autocomplete requests sent and not yet answered
  issued,             \* history: the cache keys of the autocomplete requests sent
  shownReq,           \* history: the request whose answer is displayed, or 0
  ringKeep,           \* the capacity a ring driver asks for
  nrot,               \* history: rotateBackups calls of the ring driver
  candidates,         \* App.tsx:60   useState<{ input, list } | null>
  isLoading,          \* App.tsx:49   useState(false)
  calls               \* the previewCardByName calls made, each with the await
                      \* it stands at and the history of its requests

listVars == <<cube, pending, pendingQty, ls, now, lastCheckpointRef, dirtyRef,
              lastOp, nops, nticks, firstChangeRotated>>

suggestVars == <<query, suggestions, cacheRef, error, alerted, timer, inflight, issued,
                 shownReq>>

ringVars == <<ringKeep, nrot>>

previewVars == <<candidates, isLoading, calls>>

vars == <<listVars, suggestVars, ringVars, previewVars>>

\* what the handlers of the list leave alone
offList == <<suggestVars, ringVars, previewVars>>

\* what setCube and the persist effect leave alone
offCube == <<cacheRef, inflight, issued, shownReq, ringVars, previewVars>>

\* the search box and the messages, for the handlers that leave them alone
boxVars == <<query, suggestions, error, alerted, timer>>

----------------------------------------------------------------------------
(* Bounds of the model *)

MaxOps == 2
MaxTicks == 2
StartNow == 100000

(* Program constants *)

BACKUPS_TO_KEEP == 5
BACKUP_EVERY_MS == 45000
MinQty == 1
MaxQty == 99
MaxKeep == 10
MinKeep == 1

----------------------------------------------------------------------------
(* JS values *)

Undefined == "undefined"

Fin(n) == [k |-> "fin", v |-> n]
NaN == [k |-> "nan", v |-> 0]
Infinity == [k |-> "inf", v |-> 0]

IsFinite(x) == x.k = "fin"

Min2(a, b) == IF a < b THEN a ELSE b
Max2(a, b) == IF a > b THEN a ELSE b

\* x || 1 for a JS number x: 0 and NaN are falsy
OrOne(x) == IF x.k = "nan" \/ (x.k = "fin" /\ x.v = 0) THEN Fin(1) ELSE x

\* Math.max(1, Math.min(99, x)) for x that is not NaN; the result is finite
ClampQty(x) == IF x.k = "inf" THEN MaxQty ELSE Max2(MinQty, Min2(MaxQty, x.v))

JStr(s) == [t |-> "string", s |-> s, n |-> 0]
JNum(n) == [t |-> "number", s |-> "", n |-> n]
JNull == [t |-> "null", s |-> "", n |-> 0]

NoItem == [kind |-> "null"]
Malformed == [kind |-> "malformed"]

\* the text null, which JSON.parse turns into null
JsonNull == [kind |-> "jsonnull"]

\* the empty text
EmptyText == [kind |-> "text", chars |-> <<>>]

RECURSIVE DecStr(_)
\* String(n) for a natural number: its decimal digits
DecStr(n) == IF n < 10 THEN <<n>> ELSE Append(DecStr(n \div 10), n % 10)

RECURSIVE DecVal(_)
DecVal(ds) == IF ds = <<>> THEN 0
              ELSE 10 * DecVal(SubSeq(ds, 1, Len(ds) - 1)) + ds[Len(ds)]

\* Number(raw) for a stored text: decimal digits give their value, an empty
\* text gives 0, any other text gives NaN
NumberOf(raw) == IF raw.kind = "text" THEN Fin(DecVal(raw.chars)) ELSE NaN

\* a JS string is truthy unless empty; getItem's null is falsy
Truthy(raw) == raw # NoItem /\ ~(raw.kind = "text" /\ raw.chars = <<>>)

----------------------------------------------------------------------------
(* CubeEntry and its JSON form *)

RequiredStr == {"id", "name", "set", "collector_number", "rarity", "type_line",
                "scryfall_uri"}
OptionalStr == {"mana_cost", "thumb"}

\* JSON.stringify of one entry: undefined members are left out
StringifyEntry(e) ==
  LET keys == {"qty"} \cup RequiredStr
              \cup {f \in OptionalStr : e[f] # Undefined}
  IN [f \in keys |-> IF f = "qty" THEN JNum(e.qty) ELSE JStr(e[f])]

\* an object read back as a CubeEntry: a missing member reads undefined
EntryOfRow(r) ==
  [f \in {"qty"} \cup RequiredStr \cup OptionalStr |->
     IF f \notin DOMAIN r THEN Undefined
     ELSE IF f = "qty" THEN r[f].n ELSE r[f].s]

StringifyEntries(items) ==
  [kind |-> "array", items |-> [i \in 1..Len(items) |-> StringifyEntry(items[i])]]

EntriesOfRows(rows) == [i \in 1..Len(rows) |-> EntryOfRow(rows[i])]

----------------------------------------------------------------------------
(* localStorage keys *)

KEY == "mtg_cube_v1"
META_KEY == "mtg_cube_meta_v1"
BACKUP_COUNT_KEY == "mtg_cube_backup_count_v1"
BACKUP_PREFIX ==
  <<"mtg_cube_backup_v1_1", "mtg_cube_backup_v1_2", "mtg_cube_backup_v1_3",
    "mtg_cube_backup_v1_4", "mtg_cube_backup_v1_5", "mtg_cube_backup_v1_6",
    "mtg_cube_backup_v1_7", "mtg_cube_backup_v1_8", "mtg_cube_backup_v1_9",
    "mtg_cube_backup_v1_10">>
SlotKey(i) == BACKUP_PREFIX[i]

AllKeys == {KEY, META_KEY, BACKUP_COUNT_KEY} \cup {SlotKey(i) : i \in 1..MaxKeep}

EmptyStorage == [k \in AllKeys |-> NoItem]

----------------------------------------------------------------------------
(* storage.ts *)

\* saveCube with the write of the list left out
saveCube_NoWrite(store, items, t) ==
  [store EXCEPT ![META_KEY] = [kind |-> "object", updated_at |-> t, version |-> 1]]

saveCube(store, items, t) ==
  [store EXCEPT ![KEY] = StringifyEntries(items),
                ![META_KEY] = [kind |-> "object", updated_at |-> t, version |-> 1]]

\* loadCube with the Array.isArray test left out: an object is taken for the
\* list its entries member holds
loadCube_NoArrayTest(store) ==
  LET raw == store[KEY]
  IN IF ~Truthy(raw) THEN <<>>
     ELSE IF raw.kind = "malformed" THEN <<>>
     ELSE IF raw.kind = "array" THEN EntriesOfRows(raw.items)
     ELSE IF raw.kind = "object" /\ "entries" \in DOMAIN raw
             /\ raw.entries.kind = "array" THEN EntriesOfRows(raw.entries.items)
     ELSE <<>>

\* !raw gives [], JSON.parse throwing gives [] (the catch), a parsed value
\* that is not an array gives []
loadCube(store) ==
  LET raw == store[KEY]
  IN IF ~Truthy(raw) THEN <<>>
     ELSE IF raw.kind = "malformed" THEN <<>>
     ELSE IF raw.kind # "array" THEN <<>>
     ELSE EntriesOfRows(raw.items)

\* loadMeta: null for a missing or empty text and when JSON.parse throws,
\* else the parsed value as it is
NoMeta == [kind |-> "null"]
loadMeta(store) ==
  LET raw == store[META_KEY]
  IN IF ~Truthy(raw) THEN NoMeta
     ELSE IF raw.kind = "malformed" THEN NoMeta
     ELSE IF raw.kind = "jsonnull" THEN NoMeta
     ELSE raw

cardToEntry(card, thumb) ==
  [id |-> card.id, name |-> card.name, qty |-> 1, set |-> card.set,
   collector_number |-> card.collector_number, rarity |-> card.rarity,
   type_line |-> card.type_line, mana_cost |-> card.mana_cost,
   scryfall_uri |-> card.scryfall_uri, thumb |-> thumb]

----------------------------------------------------------------------------
(* backup.ts (src/unnamed/part_001:112-166) *)

\* the upper clamp one short
ClampKeep_Short(keep) == Max2(MinKeep, Min2(keep, MaxKeep - 1))

\* const k = Math.max(1, Math.min(keep, 10))
ClampKeep(keep) == Max2(MinKeep, Min2(keep, MaxKeep))

\* the count rotateBackups reads: 0 when the key is missing, empty or not a number
ReadCount(store) ==
  LET rawCount == store[BACKUP_COUNT_KEY]
      count == IF Truthy(rawCount) THEN NumberOf(rawCount) ELSE Fin(0)
  IN IF IsFinite(count) THEN count.v ELSE 0

\* the slot taken from the new count instead of the old one
NextSlot_OffByOne(store, keep) == ((ReadCount(store) + 1) % ClampKeep(keep)) + 1

\* const slot = ((next - 1) % k) + 1, with next the count read plus one
NextSlot(store, keep) == ((ReadCount(store) + 1 - 1) % ClampKeep(keep)) + 1

\* rotateBackups that also stamps the meta key
rotateBackups_AlsoMeta(store, entries, keep, t) ==
  [store EXCEPT ![SlotKey(NextSlot(store, keep))] =
                   [kind |-> "object", updated_at |-> t,
                    entries |-> StringifyEntries(entries)],
                ![BACKUP_COUNT_KEY] =
                   [kind |-> "text", chars |-> DecStr(ReadCount(store) + 1)],
                ![META_KEY] = [kind |-> "object", updated_at |-> t, version |-> 2]]

rotateBackups(store, entries, keep, t) ==
  LET next == ReadCount(store) + 1
      slot == NextSlot(store, keep)
      payload == [kind |-> "object", updated_at |-> t,
                  entries |-> StringifyEntries(entries)]
  IN [store EXCEPT ![SlotKey(slot)] = payload,
                   ![BACKUP_COUNT_KEY] = [kind |-> "text", chars |-> DecStr(next)]]

----------------------------------------------------------------------------
(* backup.ts, reading *)

RECURSIVE InsertDesc(_, _)
\* b placed into a list sorted by updated_at descending, after its equals
InsertDesc(sorted, b) ==
  IF sorted = <<>> THEN <<b>>
  ELSE IF b.updated_at > sorted[1].updated_at THEN <<b>> \o sorted
  ELSE <<sorted[1]>> \o InsertDesc(Tail(sorted), b)

RECURSIVE SortDesc(_)
\* Array.prototype.sort((a, b) => b.updated_at - a.updated_at): stable
SortDesc(xs) ==
  IF xs = <<>> THEN <<>>
  ELSE InsertDesc(SortDesc(SubSeq(xs, 1, Len(xs) - 1)), xs[Len(xs)])

\* parsed.updated_at ?? 0
UpdatedAtOf(raw) ==
  IF raw.kind = "object" /\ "updated_at" \in DOMAIN raw THEN raw.updated_at ELSE 0

RECURSIVE ScanSlots(_, _, _)
\* the loop of listBackups over slots i..k
ScanSlots(store, i, k) ==
  IF i > k THEN <<>>
  ELSE LET raw == store[SlotKey(i)]
           rest == ScanSlots(store, i + 1, k)
       IN IF ~Truthy(raw) \/ raw.kind = "malformed" \/ raw.kind = "jsonnull" THEN rest
          ELSE <<[key |-> SlotKey(i), index |-> i, updated_at |-> UpdatedAtOf(raw)]>>
               \o rest

\* listBackups without the sort: the slots in slot order
listBackups_Unsorted(store, keep) == ScanSlots(store, 1, ClampKeep(keep))

listBackups(store, keep) == SortDesc(ScanSlots(store, 1, ClampKeep(keep)))

Ok(v) == [ok |-> TRUE, val |-> v, err |-> ""]
Throw(msg) == [ok |-> FALSE, val |-> <<>>, err |-> msg]

restoreBackup(store, key) ==
  LET raw == store[key]
  IN IF ~Truthy(raw) THEN Throw("Backup non trovato")
     ELSE IF raw.kind = "malformed" THEN Throw("SyntaxError")
     ELSE IF raw.kind = "jsonnull" THEN Throw("TypeError")
     ELSE IF ~(raw.kind = "object" /\ "entries" \in DOMAIN raw
               /\ raw.entries.kind = "array") THEN Throw("Backup non valido")
     ELSE Ok(EntriesOfRows(raw.entries.items))

----------------------------------------------------------------------------
(* csv.ts (src/unnamed/part_000) and importer.ts (App.tsx:685-725) *)

cubeToJson(entries, t) ==
  [kind |-> "object", version |-> 1, exported_at |-> t,
   entries |-> StringifyEntries(entries)]

isCubeEntry(x) ==
  /\ "t" \notin DOMAIN x
  /\ \A f \in RequiredStr : f \in DOMAIN x /\ x[f].t = "string"
  /\ "qty" \in DOMAIN x /\ x.qty.t = "number"

\* the entry list parseCubeJson reads out of the parsed document, or none
EntriesField(raw) ==
  IF raw.kind = "object" /\ "entries" \in DOMAIN raw /\ raw.entries.kind = "array"
    THEN Ok(raw.entries.items)
  ELSE IF raw.kind = "array" THEN Ok(raw.items)
  ELSE Throw("File JSON non riconosciuto (manca 'entries').")

\* an accepted row taken with the quantity it has
ImportRow_NoClamp(e) == EntryOfRow(e)

\* one accepted row: { ...e, qty } with qty re-clamped
ImportRow(e) ==
  [EntryOfRow(e) EXCEPT !.qty = ClampQty(OrOne(Fin(e.qty.n)))]

RECURSIVE ImportRows(_)
ImportRows(rows) ==
  IF rows = <<>> THEN <<>>
  ELSE IF isCubeEntry(rows[1]) THEN <<ImportRow(rows[1])>> \o ImportRows(Tail(rows))
  ELSE ImportRows(Tail(rows))

\* parseCubeJson with the test for an empty result left out
parseCubeJson_AllowEmpty(text) ==
  IF text.kind = "malformed" THEN Throw("SyntaxError")
  ELSE LET entries == EntriesField(text)
       IN IF ~entries.ok THEN entries ELSE Ok(ImportRows(entries.val))

parseCubeJson(text) ==
  IF text.kind = "malformed" THEN Throw("SyntaxError")
  ELSE LET entries == EntriesField(text)
       IN IF ~entries.ok THEN entries
          ELSE LET parsed == ImportRows(entries.val)
               IN IF Len(parsed) = 0
                    THEN Throw("Nessuna entry valida trovata nel JSON.")
                  ELSE Ok(parsed)

----------------------------------------------------------------------------
(* App.tsx: the list handlers *)

\* prev.findIndex(x => x.id === card.id || x.name === card.name); 0 for -1
FindIndex(prev, card) ==
  LET hits == {i \in 1..Len(prev) : prev[i].id = card.id \/ prev[i].name = card.name}
  IN IF hits = {} THEN 0 ELSE CHOOSE i \in hits : \A j \in hits : i <= j

\* the quantity confirmAddPending adds (App.tsx:269)
AddQty(pq) == ClampQty(OrOne(pq))

\* the updater of confirmAddPending (App.tsx:273-283)
AddToCube(prev, card, thumb, qty) ==
  LET idx == FindIndex(prev, card)
  IN IF idx > 0 THEN [prev EXCEPT ![idx].qty = prev[idx].qty + qty]
     ELSE Append(prev, [cardToEntry(card, thumb) EXCEPT !.qty = qty])

RECURSIVE Filter_Truncate(_, _)
\* a filter that stops at the first entry with the id
Filter_Truncate(prev, id) ==
  IF prev = <<>> THEN <<>>
  ELSE IF prev[1].id # id THEN <<prev[1]>> \o Filter_Truncate(Tail(prev), id)
  ELSE <<>>

RECURSIVE Filter(_, _)
\* prev.filter(x => x.id !== id)
Filter(prev, id) ==
  IF prev = <<>> THEN <<>>
  ELSE IF prev[1].id # id THEN <<prev[1]>> \o Filter(Tail(prev), id)
  ELSE Filter(Tail(prev), id)

\* the coercion of setQty with the test against 99 left out
CoerceQty_NoUpper(x) ==
  IF ~IsFinite(x) \/ x.v < MinQty THEN MinQty ELSE x.v

\* the coercion of setQty (App.tsx:294-296)
CoerceQty(x) ==
  IF ~IsFinite(x) \/ x.v < MinQty THEN MinQty
  ELSE IF x.v > MaxQty THEN MaxQty ELSE x.v

SetQtyOf(prev, id, x) ==
  [i \in 1..Len(prev) |->
     IF prev[i].id = id THEN [prev[i] EXCEPT !.qty = CoerceQty(x)] ELSE prev[i]]

\* e.id || e.name
KeyOf(e) == IF e.id # "" THEN e.id ELSE e.name

\* Map.prototype.set on an insertion-ordered list of <<key, value>> pairs
MapSet(m, key, val) ==
  IF \E i \in 1..Len(m) : m[i][1] = key
    THEN [i \in 1..Len(m) |-> IF m[i][1] = key THEN <<key, val>> ELSE m[i]]
  ELSE Append(m, <<key, val>>)

\* Map.prototype.get; NoEntry for undefined
NoEntry == [id |-> Undefined]
MapGet(m, key) ==
  IF \E i \in 1..Len(m) : m[i][1] = key
    THEN m[CHOOSE i \in 1..Len(m) : m[i][1] = key][2]
  ELSE NoEntry

RECURSIVE MapOfPrev(_, _)
\* for (const p of prev) map.set(p.id || p.name, { ...p })
MapOfPrev(m, prev) ==
  IF prev = <<>> THEN m
  ELSE MapOfPrev(MapSet(m, KeyOf(prev[1]), prev[1]), Tail(prev))

\* the body of the merge loop for one imported entry (App.tsx:333-339)
MergeOne(m, e) ==
  LET existing == MapGet(m, KeyOf(e))
  IN IF existing # NoEntry
       THEN MapSet(m, KeyOf(e),
                   [existing EXCEPT !.qty = Min2(MaxQty, existing.qty + e.qty)])
     ELSE MapSet(m, KeyOf(e), e)

RECURSIVE MergeAll(_, _)
MergeAll(m, entries) ==
  IF entries = <<>> THEN m
  ELSE MergeAll(MergeOne(m, entries[1]), Tail(entries))

\* the updater of importJsonFile (App.tsx:326-342)
ImportInto(prev, entries, replace) ==
  IF replace THEN entries
  ELSE LET m == MergeAll(MapOfPrev(<<>>, prev), entries)
       IN [i \in 1..Len(m) |-> m[i][2]]

----------------------------------------------------------------------------
(* App.tsx:70-81, the effect that runs after every render that changed cube *)

\* the effect with the interval test left out: a checkpoint at every change
EffectResult_AlwaysRotate(store, c, t, last) ==
  [ls |-> rotateBackups(saveCube(store, c, t), c, BACKUPS_TO_KEEP, t),
   last |-> t, dirty |-> FALSE, rotated |-> TRUE]

\* the effect with the interval shortened to nothing: a checkpoint as soon
\* as the clock has moved
EffectResult_AnyDelay(store, c, t, last) ==
  LET saved == saveCube(store, c, t)
      due == t - last > 0
  IN [ls |-> IF due THEN rotateBackups(saved, c, BACKUPS_TO_KEEP, t) ELSE saved,
      last |-> IF due THEN t ELSE last,
      dirty |-> ~due,
      rotated |-> due]

\* the effect with line 73 left out: the flag is never raised
EffectResult_NeverDirty(store, c, t, last) ==
  LET saved == saveCube(store, c, t)
      due == t - last > BACKUP_EVERY_MS
  IN [ls |-> IF due THEN rotateBackups(saved, c, BACKUPS_TO_KEEP, t) ELSE saved,
      last |-> IF due THEN t ELSE last,
      dirty |-> FALSE,
      rotated |-> due]

\* what the effect leaves behind, run at time t on list c with the last
\* checkpoint taken at time last
EffectResult(store, c, t, last) ==
  LET saved == saveCube(store, c, t)
      due == t - last > BACKUP_EVERY_MS
  IN [ls |-> IF due THEN rotateBackups(saved, c, BACKUPS_TO_KEEP, t) ELSE saved,
      last |-> IF due THEN t ELSE last,
      dirty |-> ~due,
      rotated |-> due]

\* setCube(c) by handler op, and the effect that follows the render
SetCube(c, op) ==
  LET r == EffectResult(ls, c, now, lastCheckpointRef)
  IN /\ nops < MaxOps
     /\ cube' = c
     /\ ls' = r.ls
     /\ lastCheckpointRef' = r.last
     /\ dirtyRef' = r.dirty
     /\ lastOp' = op
     /\ nops' = nops + 1
     /\ firstChangeRotated' =
          IF firstChangeRotated = "none" THEN (IF r.rotated THEN "yes" ELSE "no")
          ELSE firstChangeRotated
     /\ UNCHANGED <<now, nticks>>
     /\ UNCHANGED offCube

\* a handler that ended without setCube: no render of the list, no effect
NoSetCube(op) ==
  /\ nops < MaxOps
  /\ lastOp' = op
  /\ nops' = nops + 1
  /\ UNCHANGED <<cube, ls, now, lastCheckpointRef, dirtyRef, nticks, firstChangeRotated>>
  /\ UNCHANGED offCube

----------------------------------------------------------------------------
(* Inputs: the cards Scryfall returns, the quantities typed, the files picked *)

Card(id, name, mana, small) ==
  [id |-> id, name |-> name, set |-> "lea", collector_number |-> "161",
   rarity |-> "common", type_line |-> "Instant", mana_cost |-> mana,
   scryfall_uri |-> "uri", small |-> small]

\* two printings of one card (same name, different id) and another card
Cards == {Card("a", "X", "{R}", "a.jpg"), Card("c", "X", "{R}", Undefined),
          Card("b", "Y", Undefined, "b.jpg")}

Ids == {c.id : c \in Cards}

\* getThumb(card): image_uris.small, or undefined
getThumb(card) == card.small

PendingQtyInputs == {Fin(0), Fin(99)}
SetQtyInputs == {Fin(0), Fin(100), NaN}

RowOf(id, name, qty) ==
  [id |-> JStr(id), name |-> JStr(name), qty |-> JNum(qty), set |-> JStr("lea"),
   collector_number |-> JStr("161"), rarity |-> JStr("common"),
   type_line |-> JStr("Instant"), scryfall_uri |-> JStr("uri")]

\* a row without its name: not a CubeEntry
RowNoName == [id |-> JStr("b"), qty |-> JNum(3), set |-> JStr("lea"),
              collector_number |-> JStr("161"), rarity |-> JStr("common"),
              type_line |-> JStr("Instant"), scryfall_uri |-> JStr("uri")]

FileExport == [kind |-> "object", version |-> 1, exported_at |-> 0,
               entries |-> [kind |-> "array",
                            items |-> <<RowOf("c", "X", 2), RowOf("b", "Y", 150)>>]]
FileArray == [kind |-> "array", items |-> <<RowOf("a", "X", 98), RowNoName>>]

\* two rows with one id, the first with quantity 0
FileDup == [kind |-> "array", items |-> <<RowOf("a", "X", 0), RowOf("a", "X", 2)>>]

\* rows that are not entries: no name, a quantity that is a text, a null
RowQtyText == [RowOf("b", "Y", 0) EXCEPT !.qty = JStr("3")]
FileNoValid == [kind |-> "array", items |-> <<RowNoName, RowQtyText, JNull>>]

\* a row with every text member and no quantity, after a row that is an entry
RowNoQty == [f \in DOMAIN RowOf("b", "Y", 1) \ {"qty"} |-> RowOf("b", "Y", 1)[f]]
FileQtyAbsent == [kind |-> "array", items |-> <<RowOf("c", "X", 2), RowNoQty>>]

\* documents of another shape: no entries member, an entries member that is
\* not an array
FileNoEntries == [kind |-> "object", version |-> 1]
FileBadEntries == [kind |-> "object", version |-> 1,
                   entries |-> [kind |-> "text", chars |-> <<>>]]

ImportFiles == {FileExport, FileArray, Malformed}

TickDeltas == {1, BACKUP_EVERY_MS}

NoPending == [card |-> Undefined]
NoCandidates == [input |-> Undefined]

----------------------------------------------------------------------------
(* The page: the state after the first render and its effect *)

Mounted(store, t) == EffectResult(store, loadCube(store), t, 0)

NoTimer == [none |-> TRUE]

\* debounce(fn, 250)(q): the pending timer, if any, is cancelled and a new
\* one is started with the latest argument
Debounce(q) == [q |-> q]

\* The page in a browser profile with nothing stored, after the first render
\* and its effects: the persist effect has saved and checkpointed the empty
\* list, and the effect of App.tsx:143-145 has called runSuggest("")
Init ==
  /\ now = StartNow
  /\ cube = loadCube(EmptyStorage)
  /\ ls = Mounted(EmptyStorage, StartNow).ls
  /\ lastCheckpointRef = Mounted(EmptyStorage, StartNow).last
  /\ dirtyRef = Mounted(EmptyStorage, StartNow).dirty
  /\ pending = NoPending
  /\ pendingQty = Fin(1)
  /\ lastOp = "load"
  /\ nops = 0
  /\ nticks = 0
  /\ firstChangeRotated = "none"
  /\ query = ""
  /\ suggestions = <<>>
  /\ cacheRef = <<>>
  /\ error = Undefined
  /\ alerted = Undefined
  /\ timer = Debounce("")
  /\ inflight = {}
  /\ issued = <<>>
  /\ shownReq = 0
  /\ ringKeep = BACKUPS_TO_KEEP
  /\ nrot = 0
  /\ candidates = NoCandidates
  /\ isLoading = FALSE
  /\ calls = <<>>

\* setQuery(q) and the effect of App.tsx:143-145, which runs when the query
\* changed: the timer the search box is left with
TimerAfter(q) == IF q # query THEN Debounce(q) ELSE timer

\* the page is loaded again: every useState and useRef starts over
Reload ==
  LET r == Mounted(ls, now)
  IN /\ nops < MaxOps
     /\ cube' = loadCube(ls)
     /\ ls' = r.ls
     /\ lastCheckpointRef' = r.last
     /\ dirtyRef' = r.dirty
     /\ pending' = NoPending
     /\ pendingQty' = Fin(1)
     /\ lastOp' = "load"
     /\ nops' = nops + 1
     /\ firstChangeRotated' = "none"
     /\ query' = ""
     /\ suggestions' = <<>>
     /\ cacheRef' = <<>>
     /\ error' = Undefined
     /\ timer' = Debounce("")
     /\ inflight' = {}
     /\ shownReq' = 0
     /\ candidates' = NoCandidates
     /\ isLoading' = FALSE
     /\ calls' = <<>>
     /\ UNCHANGED <<now, nticks, alerted, issued, ringVars>>

Tick(d) ==
  /\ nticks < MaxTicks
  /\ nops < MaxOps
  /\ now' = now + d
  /\ nticks' = nticks + 1
  /\ UNCHANGED <<cube, pending, pendingQty, ls, lastCheckpointRef, dirtyRef,
                 lastOp, nops, firstChangeRotated>>
  /\ UNCHANGED offList

\* previewCardByName from the call to the return of App.tsx:174, the exact
\* match answered with card at once (App.tsx:151-174)
PreviewResolved(card) ==
  /\ nops < MaxOps
  /\ isLoading' = TRUE
  /\ candidates' = NoCandidates
  /\ pending' = [card |-> card, thumb |-> getThumb(card), matchedViaItalian |-> FALSE]
  /\ pendingQty' = Fin(1)
  /\ error' = Undefined
  /\ query' = ""
  /\ suggestions' = <<>>
  /\ timer' = TimerAfter("")
  /\ UNCHANGED <<cube, ls, now, lastCheckpointRef, dirtyRef, lastOp, nops, nticks,
                 firstChangeRotated, alerted>>
  /\ UNCHANGED <<cacheRef, inflight, issued, shownReq, ringVars, calls>>

\* the quantity input of the preview (App.tsx:661)
SetPendingQty(x) ==
  /\ nops < MaxOps
  /\ pending # NoPending
  /\ pendingQty' = x
  /\ UNCHANGED <<cube, pending, ls, now, lastCheckpointRef, dirtyRef, lastOp, nops,
                 nticks, firstChangeRotated>>
  /\ UNCHANGED offList

confirmAddPending ==
  /\ pending # NoPending
  /\ SetCube(AddToCube(cube, pending.card, pending.thumb, AddQty(pendingQty)), "add")
  /\ pending' = NoPending
  /\ UNCHANGED pendingQty
  /\ UNCHANGED boxVars

removeEntry(id) ==
  /\ SetCube(Filter(cube, id), "remove")
  /\ UNCHANGED <<pending, pendingQty>>
  /\ UNCHANGED boxVars

setQty(id, x) ==
  /\ SetCube(SetQtyOf(cube, id, x), "setQty")
  /\ UNCHANGED <<pending, pendingQty>>
  /\ UNCHANGED boxVars

\* the file is read and parsed, then the user answers the confirm with replace
importJsonFile(file, replace) ==
  LET entries == parseCubeJson(file)
  IN /\ IF entries.ok
          THEN /\ SetCube(ImportInto(cube, entries.val, replace), "import")
               /\ error' = Undefined
        ELSE /\ NoSetCube("importFailed")
             /\ error' = entries.err
     /\ UNCHANGED <<pending, pendingQty, query, suggestions, alerted, timer>>

\* the user confirms
clearCube ==
  /\ SetCube(<<>>, "clear")
  /\ query' = ""
  /\ suggestions' = <<>>
  /\ error' = Undefined
  /\ timer' = TimerAfter("")
  /\ UNCHANGED <<pending, pendingQty, alerted>>

\* the end of openRestore (App.tsx:395-400): restoreBackup(key), then the
\* list installed, or the alert of the catch
RestoreSelected(key) ==
  LET restored == restoreBackup(ls, key)
  IN /\ IF restored.ok
          THEN /\ SetCube(restored.val, "restore")
               /\ UNCHANGED alerted
        ELSE /\ NoSetCube("restoreFailed")
             /\ alerted' = restored.err
     /\ UNCHANGED <<pending, pendingQty, query, suggestions, error, timer>>

\* the user answers the prompt with n and confirms
openRestore(n) ==
  LET backups == listBackups(ls, BACKUPS_TO_KEEP)
  IN IF Len(backups) = 0
       THEN /\ NoSetCube("restoreFailed")
            /\ alerted' = "Nessun backup disponibile in questo browser."
            /\ UNCHANGED <<pending, pendingQty, query, suggestions, error, timer>>
     ELSE IF n < 1 \/ n > Len(backups)
       THEN /\ NoSetCube("restoreFailed")
            /\ alerted' = "Scelta non valida."
            /\ UNCHANGED <<pending, pendingQty, query, suggestions, error, timer>>
     ELSE RestoreSelected(backups[n].key)

Next ==
  \/ Reload
  \/ \E d \in TickDeltas : Tick(d)
  \/ \E card \in Cards : PreviewResolved(card)
  \/ \E x \in PendingQtyInputs : SetPendingQty(x)
  \/ confirmAddPending
  \/ \E id \in Ids : removeEntry(id)
  \/ \E id \in Ids, x \in SetQtyInputs : setQty(id, x)
  \/ \E file \in ImportFiles, replace \in BOOLEAN : importJsonFile(file, replace)
  \/ clearCube
  \/ \E n \in 1..BACKUPS_TO_KEEP : openRestore(n)

Spec == Init /\ [][Next]_vars

----------------------------------------------------------------------------
(* Properties of the list, its persistence and the backup ring, under Spec *)

\* a step of the named handler that set the cube
StepOf(op) == lastOp' = op /\ nops' = nops + 1

\* the backup part of localStorage: the slots and the counter
Ring(store) == [k \in AllKeys \ {KEY, META_KEY} |-> store[k]]

\* C1: in every reachable state every entry of the cube has a quantity q
\* with 1 <= q <= 99.
C1_QtyInRange ==
  \A i \in 1..Len(cube) : MinQty <= cube[i].qty /\ cube[i].qty <= MaxQty

\* C2: adding q2 of a card whose identity (same id or same name) is already
\* in the cube with a quantity q1 in 1..99 leaves the list as long as it was,
\* with that entry's quantity equal to min(99, q1 + q2).
C2_AddSumsClamped ==
  [][(StepOf("add") /\ FindIndex(cube, pending.card) > 0
        /\ cube[FindIndex(cube, pending.card)].qty \in MinQty..MaxQty)
     => LET idx == FindIndex(cube, pending.card)
        IN /\ Len(cube') = Len(cube)
           /\ cube'[idx].qty = Min2(MaxQty, cube[idx].qty + AddQty(pendingQty))]_vars

\* C3: in every reachable state no two distinct entries of the cube share an
\* id or share a name.
C3_NoDuplicates ==
  \A i, j \in 1..Len(cube) :
    i # j => cube[i].id # cube[j].id /\ cube[i].name # cube[j].name

\* C4: after every handler that set the cube, the list stored under the
\* primary key reads back (loadCube) as the in-memory list, and a page
\* reload leaves the list as it was before the reload.
C4_PersistedAfterEveryMutation ==
  /\ [](loadCube(ls) = cube)
  /\ [][StepOf("load") => cube' = cube]_vars

C4_Witness ==
  /\ lastOp = "load" /\ nops >= 2
  /\ \E i \in 1..Len(cube) : cube[i].thumb = Undefined /\ cube[i].qty > 1

\* C6: the first list change after the page was loaded always takes a
\* checkpoint, however little time has passed since the load.
C6_FirstChangeSnapshots == firstChangeRotated # "no"

\* C7 as claimed: a restore (restoreBackup, then the restored list installed)
\* leaves every backup slot and the counter as they were.
C7_RestoreKeepsRing ==
  [][StepOf("restore") => Ring(ls') = Ring(ls)]_vars

\* C7 as amended: a restore leaves every backup slot and the counter as they
\* were unless more than BACKUP_EVERY_MS have passed since the last
\* checkpoint; then the effect that installs the restored list writes the
\* restored list to the next slot of the ring, leaves the other slots as
\* they were and adds one to the counter.
C7_RestoreRotatesOnlyWhenDue ==
  [][StepOf("restore")
     => IF now - lastCheckpointRef > BACKUP_EVERY_MS
          THEN /\ ReadCount(ls') = ReadCount(ls) + 1
               /\ restoreBackup(ls', SlotKey(NextSlot(ls, BACKUPS_TO_KEEP))) = Ok(cube')
               /\ \A i \in 1..MaxKeep :
                    i # NextSlot(ls, BACKUPS_TO_KEEP) => ls'[SlotKey(i)] = ls[SlotKey(i)]
        ELSE Ring(ls') = Ring(ls)]_vars

C7_Witness ==
  /\ lastOp = "restore" /\ dirtyRef
  /\ Len(cube) > 0
  /\ ReadCount(ls) >= 2

\* C10: exporting the cube (cubeToJson) and importing the result with
\* "replace" succeeds and yields the same entries in the same order.
C10_RoundTrip ==
  Len(cube) > 0 =>
    LET r == parseCubeJson(cubeToJson(cube, now))
    IN r.ok /\ ImportInto(cube, r.val, TRUE) = cube

\* the slots that hold something
Populated(store) == {i \in 1..MaxKeep : store[SlotKey(i)] # NoItem}

\* the time of the newest snapshot in the ring
NewestSnapshot(store) ==
  LET times == {UpdatedAtOf(store[SlotKey(i)]) : i \in Populated(store)}
  IN CHOOSE t \in times : \A u \in times : u <= t

\* a step of a handler other than the page load that wrote a snapshot
SnapshotStep == lastOp' # "load" /\ nops' = nops + 1 /\ ReadCount(ls') # ReadCount(ls)

\* C21: within one session a list change writes a snapshot only if at least
\* BACKUP_EVERY_MS have passed since the newest snapshot, so that two
\* consecutive snapshots of a session are at least BACKUP_EVERY_MS apart.
C21_SnapshotsSpaced ==
  [][SnapshotStep
     => /\ now' - NewestSnapshot(ls) >= BACKUP_EVERY_MS
        /\ NewestSnapshot(ls') - NewestSnapshot(ls) >= BACKUP_EVERY_MS]_vars

C21_Witness ==
  /\ lastOp = "add" /\ nops = 1
  /\ ReadCount(ls) = 2
  /\ NewestSnapshot(ls) = now /\ now > StartNow + BACKUP_EVERY_MS

\* C22: saveCube changes the primary key and the meta key and nothing else;
\* rotateBackups changes one slot key and the counter key and nothing else;
\* and clearing the list empties no backup slot.
C22_WritesOnlyOwnKeys ==
  /\ [](\A k \in AllKeys \ {KEY, META_KEY} : saveCube(ls, cube, now)[k] = ls[k])
  /\ [](LET r == rotateBackups(ls, cube, BACKUPS_TO_KEEP, now)
        IN /\ r[KEY] = ls[KEY] /\ r[META_KEY] = ls[META_KEY]
           /\ Cardinality({i \in 1..MaxKeep : r[SlotKey(i)] # ls[SlotKey(i)]}) <= 1)
  /\ [][StepOf("clear")
        => /\ Populated(ls) \subseteq Populated(ls')
           /\ Cardinality({i \in 1..MaxKeep : ls'[SlotKey(i)] # ls[SlotKey(i)]}) <= 1]_vars

C22_Witness ==
  /\ lastOp = "clear" /\ cube = <<>>
  /\ \E i \in Populated(ls) :
       restoreBackup(ls, SlotKey(i)).ok /\ Len(restoreBackup(ls, SlotKey(i)).val) > 0

\* a step whose render ran the persist effect: the page load or a handler
\* that set the cube
SavedStep ==
  /\ nops' = nops + 1
  /\ lastOp' \in {"load", "add", "remove", "setQty", "import", "clear", "restore"}

\* C26: after a save that took a checkpoint the dirty flag is false, after a
\* save that took none it is true, and nothing else changes the flag.
C26_DirtyIffSavedAfterSnapshot ==
  [][/\ SavedStep => dirtyRef' = (ReadCount(ls') = ReadCount(ls))
     /\ ~SavedStep => dirtyRef' = dirtyRef]_vars

C26_Witness ==
  /\ lastOp = "setQty" /\ nops = 2 /\ dirtyRef
  /\ firstChangeRotated = "yes"

---------------------------------------------------------------------------------
(* The list edited in place: imports, quantities set, entries removed, with *)
(* every kind of file and of number                                         *)

EditQtyInputs == {Fin(0), Fin(7), Fin(100), NaN, Infinity}

EditFiles == {FileExport, FileArray, FileDup, FileNoValid, FileNoEntries,
              FileBadEntries, FileQtyAbsent, Malformed}

EditNext ==
  \/ \E file \in EditFiles, replace \in BOOLEAN : importJsonFile(file, replace)
  \/ \E id \in Ids, x \in EditQtyInputs : setQty(id, x)
  \/ \E id \in Ids : removeEntry(id)
  \/ \E card \in Cards : PreviewResolved(card)
  \/ \E x \in PendingQtyInputs : SetPendingQty(x)
  \/ confirmAddPending

SpecEdit == Init /\ [][EditNext]_vars

\* C11: setQty(id, x), for any number x, leaves every entry with that id with
\* a quantity in 1..99: 1 for a non-finite x or an x below 1, 99 for an x
\* above 99, x itself otherwise; every other entry and the order of the list
\* are as they were.
C11_SetQtyCoerces ==
  [][\A id \in Ids, x \in EditQtyInputs :
       setQty(id, x) =>
         /\ Len(cube') = Len(cube)
         /\ \A i \in 1..Len(cube) :
              IF cube[i].id = id
                THEN /\ cube'[i].qty \in 1..99
                     /\ cube'[i].qty = (IF x.k # "fin" THEN 1
                                        ELSE IF x.v < 1 THEN 1
                                        ELSE IF x.v > 99 THEN 99 ELSE x.v)
                     /\ [cube'[i] EXCEPT !.qty = 0] = [cube[i] EXCEPT !.qty = 0]
              ELSE cube'[i] = cube[i]]_vars

C11_Witness ==
  /\ lastOp = "setQty"
  /\ Len(cube) = 2
  /\ cube[1].id = "c" /\ cube[1].qty = 7
  /\ cube[2].id = "b" /\ cube[2].qty = 99

\* the first entry of a list with a key, 0 when there is none
KeyIndex(acc, key) ==
  LET hits == {i \in 1..Len(acc) : KeyOf(acc[i]) = key}
  IN IF hits = {} THEN 0 ELSE CHOOSE i \in hits : \A j \in hits : i <= j

\* one imported entry merged as C12 words it: summed into the entry that
\* shares its key, or inserted
MergedOne(acc, e) ==
  LET i == KeyIndex(acc, KeyOf(e))
  IN IF i > 0 THEN [acc EXCEPT ![i].qty = Min2(99, acc[i].qty + e.qty)]
     ELSE Append(acc, e)

RECURSIVE MergedByKey(_, _)
MergedByKey(acc, entries) ==
  IF entries = <<>> THEN acc
  ELSE MergedByKey(MergedOne(acc, entries[1]), Tail(entries))

\* C12: an import that merges takes the imported entries one by one: an
\* entry whose key (id, or name when the id is empty) is the key of an entry
\* of the list is summed into it, the quantity becoming min(99, existing +
\* imported); any other entry is inserted at the end; every entry the list
\* had is still in it.
C12_MergeSumsOrInserts ==
  [][\A file \in EditFiles :
       (parseCubeJson(file).ok /\ importJsonFile(file, FALSE))
         => cube' = MergedByKey(cube, parseCubeJson(file).val)]_vars

\* the rows of a document that are entries, in the document's order
ValidRows(file) == SelectSeq(EntriesField(file).val, isCubeEntry)

\* C13: every row an import accepts is taken with its stored quantity
\* brought into 1..99: a row stored with 150 is taken with 99.
C13_ImportClampsQty ==
  [][\A file \in EditFiles :
       (parseCubeJson(file).ok /\ importJsonFile(file, TRUE))
         => /\ Len(cube') = Len(ValidRows(file))
            /\ \A i \in 1..Len(cube') :
                 /\ cube'[i].id = ValidRows(file)[i].id.s
                 /\ cube'[i].qty = Max2(1, Min2(99, ValidRows(file)[i].qty.n))]_vars

C13_Witness ==
  /\ lastOp = "import" /\ nops = 1
  /\ Len(cube) = 2
  /\ cube[1].id = "c" /\ cube[1].qty = 2
  /\ cube[2].id = "b" /\ cube[2].qty = 99

\* the document is an object with an array under entries, or an array
HasEntryList(file) ==
  \/ file.kind = "array"
  \/ file.kind = "object" /\ "entries" \in DOMAIN file /\ file.entries.kind = "array"

Before(prev, i, id) == Cardinality({j \in 1..(i - 1) : prev[j].id = id})

\* C15: removeEntry(id) takes the entry with the id out of the list and
\* leaves every other entry, and their order, as it was; when no entry has
\* the id the list is as it was; no message is raised.
C15_RemoveOnlyThat ==
  [][\A id \in Ids :
       removeEntry(id) =>
         /\ Len(cube') = Cardinality({i \in 1..Len(cube) : cube[i].id # id})
         /\ \A i \in 1..Len(cube) :
              cube[i].id # id => cube'[i - Before(cube, i, id)] = cube[i]
         /\ (\A i \in 1..Len(cube) : cube[i].id # id) => cube' = cube
         /\ error' = error /\ alerted' = alerted]_vars

C15_Witness ==
  /\ lastOp = "remove"
  /\ Len(cube) = 1
  /\ cube[1].id = "b"

-----------------------------------------------------------------------
(* The backup ring driven on its own: rotateBackups called again and again *)
(* with one requested capacity, from a storage with no counter             *)

KeepSlack == 2
MaxRotations == 23

RequestedKeeps == (MinKeep - 1 - KeepSlack)..(MaxKeep + KeepSlack)

\* the list snapshotted by the n-th call: one entry whose quantity tells n
RingEntries(n) == <<[cardToEntry(Card("a", "X", "{R}", "a.jpg"), "a.jpg")
                      EXCEPT !.qty = ((n - 1) % MaxQty) + 1]>>

RingInit ==
  /\ ringKeep \in RequestedKeeps
  /\ nrot = 0
  /\ ls = EmptyStorage
  /\ now = StartNow
  /\ nticks = 0
  /\ cube = <<>>
  /\ lastCheckpointRef = 0
  /\ dirtyRef = FALSE
  /\ pending = NoPending
  /\ pendingQty = Fin(1)
  /\ lastOp = "ring"
  /\ nops = 0
  /\ firstChangeRotated = "none"
  /\ query = ""
  /\ suggestions = <<>>
  /\ cacheRef = <<>>
  /\ error = Undefined
  /\ alerted = Undefined
  /\ timer = Debounce("")
  /\ inflight = {}
  /\ issued = <<>>
  /\ shownReq = 0
  /\ candidates = NoCandidates
  /\ isLoading = FALSE
  /\ calls = <<>>

Rotate ==
  /\ nrot < MaxRotations
  /\ ls' = rotateBackups(ls, RingEntries(nrot + 1), ringKeep, now)
  /\ nrot' = nrot + 1
  /\ UNCHANGED <<cube, pending, pendingQty, now, lastCheckpointRef, dirtyRef, lastOp,
                 nops, nticks, firstChangeRotated, ringKeep>>
  /\ UNCHANGED suggestVars
  /\ UNCHANGED previewVars

RingNext ==
  \/ Rotate
  \/ \E d \in TickDeltas : Tick(d)

SpecRing == RingInit /\ [][RingNext]_vars


\* the requested capacity brought into [1,10], written out
Effective(k) == IF k < 1 THEN 1 ELSE IF k > 10 THEN 10 ELSE k

\* C8: after n >= 1 rotate calls on a ring whose counter started absent, the
\* slot ((n - 1) mod k) + 1 holds the snapshot of the n-th call (k the
\* clamped capacity), and the persisted counter is the text of n.
C8_LatestSlotAndCounter ==
  nrot >= 1 =>
    LET k == Effective(ringKeep)
        latest == ls[SlotKey(((nrot - 1) % k) + 1)]
    IN /\ latest # NoItem
       /\ restoreBackup(ls, SlotKey(((nrot - 1) % k) + 1)) = Ok(RingEntries(nrot))
       /\ ls[BACKUP_COUNT_KEY] = [kind |-> "text", chars |-> DecStr(nrot)]
       /\ ReadCount(ls) = nrot

C8_Witness ==
  /\ nrot = 13 /\ ringKeep = 5
  /\ restoreBackup(ls, SlotKey(3)) = Ok(RingEntries(13))

\* C9: the populated slots are always among 1..k, k the requested capacity
\* clamped to [1,10], so there are at most k of them; after 2k+3 rotations
\* exactly the k slots 1..k are populated.
C9_AtMostCapacity ==
  LET k == Effective(ringKeep)
  IN /\ Populated(ls) \subseteq 1..k
     /\ Cardinality(Populated(ls)) <= k
     /\ nrot = 2 * k + 3 => Populated(ls) = 1..k

C9_Witness ==
  /\ ringKeep > MaxKeep
  /\ nrot = 2 * MaxKeep + 3
  /\ Cardinality(Populated(ls)) = MaxKeep

\* a row with every text member of an entry, whatever its quantity
IsStructRow(x) ==
  /\ "t" \notin DOMAIN x
  /\ \A f \in RequiredStr : f \in DOMAIN x /\ x[f].t = "string"

StructRows(file) == SelectSeq(EntriesField(file).val, IsStructRow)

\* C28: a row with every text member of an entry whose quantity is absent or
\* not a number is taken by the import, with quantity 1: an import that
\* replaces the list leaves one entry for each such row of the document.
C28_MissingQtyTakenAsOne ==
  [][\A file \in EditFiles :
       (HasEntryList(file) /\ Len(StructRows(file)) > 0 /\ importJsonFile(file, TRUE))
         => /\ lastOp' = "import"
            /\ Len(cube') = Len(StructRows(file))
            /\ \A i \in 1..Len(cube') :
                 /\ cube'[i].id = StructRows(file)[i].id.s
                 /\ ~("qty" \in DOMAIN StructRows(file)[i]
                       /\ StructRows(file)[i].qty.t = "number")
                      => cube'[i].qty = 1]_vars

----------------------------------------------------------------------------
(* Search-as-you-type: App.tsx:116-145 with lib/debounce and autocompleteNames *)

MaxRequests == 3

\* what may be typed in the search box
Queries == {"", "l", "li", "LI ", "lig"}

\* String.prototype.trim, toLowerCase and length on the texts above
Trim(q) == IF q = "LI " THEN "LI" ELSE q
ToLowerCase(q) == IF q = "LI" THEN "li" ELSE IF q = "LI " THEN "li " ELSE q
Length(q) ==
  IF q = "" THEN 0 ELSE IF q = "l" THEN 1 ELSE IF q \in {"li", "LI"} THEN 2 ELSE 3

\* the names Scryfall knows that start with a text (no case)
NamesFor(q) ==
  IF ToLowerCase(q) = "li" THEN <<"Lightning Bolt", "Lightning Strike">>
  ELSE IF ToLowerCase(q) = "lig" THEN <<"Lightning Bolt">>
  ELSE <<>>

\* What fetch settles with: a response with a status (ok for 200-299) and a
\* JSON body (an object, by the members it has), or a rejection when the
\* network fails
ErrorBody == [object |-> "error"]
ListBody(data) == [object |-> "list", data |-> data]
HttpOk(body) == [net |-> TRUE, ok |-> TRUE, status |-> 200, body |-> body]
HttpFail(status) == [net |-> TRUE, ok |-> FALSE, status |-> status, body |-> ErrorBody]
NetworkDown == [net |-> FALSE, ok |-> FALSE, status |-> 0, body |-> ErrorBody]

FailStatuses == {404, 500}

\* the template text `${prefix}${res.status}` for the statuses above
WithStatus(prefix, status) ==
  IF prefix = "Scryfall error: "
    THEN (IF status = 404 THEN "Scryfall error: 404" ELSE "Scryfall error: 500")
  ELSE (IF status = 404 THEN "Card fetch error: 404" ELSE "Card fetch error: 500")

\* getJson (part_001:31-35): throws when the response is not ok
getJson(res) ==
  IF ~res.net THEN Throw("Failed to fetch")
  ELSE IF ~res.ok THEN Throw(WithStatus("Scryfall error: ", res.status))
  ELSE Ok(res.body)

\* autocompleteNames (part_001:37-45): data?.data ?? [], an error of getJson
\* passed on
autocompleteNames(res) ==
  LET data == getJson(res)
  IN IF ~data.ok THEN data
     ELSE IF "data" \notin DOMAIN data.val THEN Ok(<<>>)
     ELSE Ok(data.val.data)

\* a cache of one entry: the set drops every other key
CacheSet_Only(cache, key, res) == [k \in {key} |-> res]

\* Map.prototype.set on cacheRef
CacheSet(cache, key, res) ==
  [k \in DOMAIN cache \cup {key} |-> IF k = key THEN res ELSE cache[k]]

\* the input's onChange (App.tsx:422-425) and the effect of App.tsx:143-145
TypeQuery(q) ==
  /\ q # query
  /\ query' = q
  /\ timer' = Debounce(q)
  /\ UNCHANGED <<suggestions, cacheRef, error, alerted, inflight, issued, shownReq>>
  /\ UNCHANGED <<listVars, ringVars, previewVars>>

\* the timer runs out: runSuggest's function runs up to its await
\* (App.tsx:118-132)
TimerFires ==
  /\ timer # NoTimer
  /\ timer' = NoTimer
  /\ error' = Undefined
  /\ LET trimmed == Trim(timer.q)
         key == ToLowerCase(trimmed)
     IN IF Length(trimmed) < 2
          THEN /\ suggestions' = <<>>
               /\ shownReq' = 0
               /\ UNCHANGED <<inflight, issued>>
        ELSE IF key \in DOMAIN cacheRef
          THEN /\ suggestions' = cacheRef[key]
               /\ shownReq' = 0
               /\ UNCHANGED <<inflight, issued>>
        ELSE /\ Len(issued) < MaxRequests
             /\ issued' = Append(issued, key)
             /\ inflight' = inflight \cup {[id |-> Len(issued) + 1, q |-> trimmed,
                                            key |-> key]}
             /\ UNCHANGED <<suggestions, shownReq>>
  /\ UNCHANGED <<query, cacheRef, alerted>>
  /\ UNCHANGED <<listVars, ringVars, previewVars>>

\* the answers to an autocomplete request for q
GoodAnswers(q) == {HttpOk(ListBody(NamesFor(q))), HttpOk(ListBody(<<>>)),
                   HttpOk(ErrorBody)}
BadAnswers == {HttpFail(st) : st \in FailStatuses} \cup {NetworkDown}

\* autocompleteNames resolves (App.tsx:132-134)
Respond(r, res) ==
  /\ r \in inflight
  /\ autocompleteNames(res).ok
  /\ inflight' = inflight \ {r}
  /\ cacheRef' = CacheSet(cacheRef, r.key, autocompleteNames(res).val)
  /\ suggestions' = autocompleteNames(res).val
  /\ shownReq' = r.id
  /\ UNCHANGED <<query, error, alerted, timer, issued>>
  /\ UNCHANGED <<listVars, ringVars, previewVars>>

\* autocompleteNames rejects: getJson threw on a response that is not ok, or
\* fetch failed (App.tsx:135-138)
RespondError(r, res) ==
  /\ r \in inflight
  /\ ~autocompleteNames(res).ok
  /\ inflight' = inflight \ {r}
  /\ error' = autocompleteNames(res).err
  /\ suggestions' = <<>>
  /\ shownReq' = 0
  /\ UNCHANGED <<query, cacheRef, alerted, timer, issued>>
  /\ UNCHANGED <<listVars, ringVars, previewVars>>

SuggestNext ==
  \/ \E q \in Queries : TypeQuery(q)
  \/ TimerFires
  \/ \E r \in inflight : \E res \in GoodAnswers(r.q) : Respond(r, res)
  \/ \E r \in inflight : \E res \in BadAnswers : RespondError(r, res)

SpecSuggest == Init /\ [][SuggestNext]_vars

\* C5: the suggestions on display (the list is shown when it is not empty)
\* are never the answer to a lookup for an older text than the text
\* (trimmed, in lower case) of the most recent lookup sent.
C5_NoStaleSuggestions ==
  (shownReq # 0 /\ suggestions # <<>>) => issued[shownReq] = issued[Len(issued)]

\* C18: when the answer to an autocomplete request has a status that is not
\* a success, autocompleteNames returns the empty list and raises nothing:
\* the lookup ends with no error message.
C18_SilentOnBadStatus ==
  [][\A r \in inflight, st \in FailStatuses :
       (\/ Respond(r, HttpFail(st))
        \/ RespondError(r, HttpFail(st)))
         => /\ autocompleteNames(HttpFail(st)) = Ok(<<>>)
            /\ error' = Undefined]_vars

\* C25: a lookup whose trimmed text in lower case is a key of the cache sends
\* no autocomplete request and shows the cached list; a lookup whose trimmed
\* text is shorter than 2 characters sends no request; no key ever leaves
\* the cache, and a failed lookup leaves the cache as it was.
C25_CacheServesAndGrows ==
  [][/\ (TimerFires /\ Length(Trim(timer.q)) < 2)
          => issued' = issued /\ inflight' = inflight
     /\ (TimerFires /\ Length(Trim(timer.q)) >= 2
            /\ ToLowerCase(Trim(timer.q)) \in DOMAIN cacheRef)
          => /\ issued' = issued /\ inflight' = inflight
             /\ suggestions' = cacheRef[ToLowerCase(Trim(timer.q))]
     /\ DOMAIN cacheRef \subseteq DOMAIN cacheRef'
     /\ \A r \in inflight, res \in BadAnswers :
          RespondError(r, res) => cacheRef' = cacheRef]_vars

C25_Witness ==
  /\ shownReq = 0 /\ suggestions = <<"Lightning Bolt", "Lightning Strike">>
  /\ DOMAIN cacheRef = {"li", "lig"}
  /\ Len(issued) = 2

----------------------------------------------------------------------------
(* The page over a localStorage that something else has written to: the    *)
(* user's browser tools, another version of the page, a half-written text  *)

\* the keys written to, and the texts written
TamperKeys == {KEY, META_KEY, SlotKey(1)}
StoredTexts == {NoItem, EmptyText, Malformed, JsonNull, FileNoEntries, FileBadEntries,
                FileExport, FileArray}

\* setItem(key, text), or removeItem(key) for NoItem, from outside the page
Tamper(key, text) ==
  /\ nops < MaxOps
  /\ ls[key] # text
  /\ ls' = [ls EXCEPT ![key] = text]
  /\ UNCHANGED <<cube, pending, pendingQty, now, lastCheckpointRef, dirtyRef, lastOp,
                 nops, nticks, firstChangeRotated>>
  /\ UNCHANGED offList

RestoreKeys == {SlotKey(1), SlotKey(2)}

StoredNext ==
  \/ \E key \in TamperKeys, text \in StoredTexts : Tamper(key, text)
  \/ Reload
  \/ \E key \in RestoreKeys : RestoreSelected(key)
  \/ \E n \in 1..2 : openRestore(n)
  \/ \E file \in {FileExport} : importJsonFile(file, TRUE)

SpecStored == Init /\ [][StoredNext]_vars

\* C19: restoreBackup(key) ends in one of three ways: it fails with "Backup
\* non trovato" when the key holds no text, it fails with "Backup non valido"
\* when the text does not parse or the parsed entries member is not an
\* array, and otherwise it returns the stored entries; when it fails the
\* list is as it was.
C19_RestoreThreeResults ==
  [][\A key \in RestoreKeys :
       RestoreSelected(key) =>
         IF ls[key] = NoItem \/ ls[key] = EmptyText
           THEN alerted' = "Backup non trovato" /\ cube' = cube
         ELSE IF ~(ls[key].kind = "object" /\ "entries" \in DOMAIN ls[key]
                   /\ ls[key].entries.kind = "array")
           THEN alerted' = "Backup non valido" /\ cube' = cube
         ELSE /\ cube' = EntriesOfRows(ls[key].entries.items)
              /\ alerted' = alerted]_vars

\* C20: loadCube never raises: the page loads with the stored list when the
\* primary key holds an array, and with the empty list when the key is
\* missing, holds a text that does not parse, or holds a value that is not
\* an array; loadMeta gives null, not an error, for a missing text and for a
\* text that does not parse.
C20_LoadNeverRaises ==
  /\ [][Reload => cube' = (IF ls[KEY] # NoItem /\ ls[KEY].kind = "array"
                             THEN EntriesOfRows(ls[KEY].items) ELSE <<>>)]_vars
  /\ []((ls[META_KEY] = NoItem \/ ls[META_KEY] = Malformed) => loadMeta(ls) = NoMeta)
  /\ []((ls[META_KEY] # NoItem /\ ls[META_KEY].kind = "object")
          => loadMeta(ls) = ls[META_KEY])

C20_Witness ==
  /\ lastOp = "load" /\ nops = 2
  /\ Len(cube) = 2 /\ cube[2].qty = 99
  /\ loadMeta(ls) = ls[META_KEY]

\* The ring read back while the clock runs: the page loaded again and the
\* list replaced, with the first slot written to from outside the page
SlotTexts == {NoItem, Malformed, JsonNull, FileArray}

SlotsNext ==
  \/ \E text \in SlotTexts : Tamper(SlotKey(1), text)
  \/ Reload
  \/ \E d \in TickDeltas : Tick(d)
  \/ \E file \in {FileExport} : importJsonFile(file, TRUE)

SpecSlots == Init /\ [][SlotsNext]_vars

\* the slots 1..k that hold a text that parses, and those of them whose
\* text parses to something other than null
Parseable(store, k) ==
  {i \in 1..k : /\ store[SlotKey(i)] \notin {NoItem, EmptyText}
                /\ store[SlotKey(i)].kind # "malformed"}
Readable(store, k) == {i \in Parseable(store, k) : store[SlotKey(i)].kind # "jsonnull"}

\* b has one BackupInfo for each slot of the set, newest first
ListsSlots(b, slots, store) ==
  /\ Len(b) = Cardinality(slots)
  /\ {b[n].index : n \in 1..Len(b)} = slots
  /\ \A n \in 1..Len(b) :
       /\ b[n].key = SlotKey(b[n].index)
       /\ b[n].updated_at = UpdatedAtOf(store[SlotKey(b[n].index)])
  /\ \A n \in 1..(Len(b) - 1) : b[n].updated_at >= b[n + 1].updated_at

\* a step that wrote a snapshot (the counter moves in no other way)
RotateStep == ReadCount(ls') = ReadCount(ls) + 1

\* C27 as claimed: listBackups returns one BackupInfo for each slot of
\* 1..capacity that holds a text that parses, skips the others without
\* raising, and orders the result by timestamp descending, so that after
\* any rotation the first element is the slot just written.
C27_ListsNewestWrittenFirst ==
  /\ [](ListsSlots(listBackups(ls, BACKUPS_TO_KEEP),
                   Parseable(ls, BACKUPS_TO_KEEP), ls))
  /\ [][RotateStep
        => listBackups(ls', BACKUPS_TO_KEEP)[1].index
             = NextSlot(ls, BACKUPS_TO_KEEP)]_vars

\* C27 as amended: listBackups returns one BackupInfo for each slot of
\* 1..capacity that holds a text that parses to a value other than null,
\* skips the others without raising, and orders the result by timestamp
\* descending; after a rotation the first element is the slot just written
\* when every other listed slot has an older timestamp.
C27_ListsReadableSlotsSorted ==
  /\ [](ListsSlots(listBackups(ls, BACKUPS_TO_KEEP),
                   Readable(ls, BACKUPS_TO_KEEP), ls))
  /\ [][(/\ RotateStep
         /\ \A i \in Readable(ls', BACKUPS_TO_KEEP) \ {NextSlot(ls, BACKUPS_TO_KEEP)} :
              UpdatedAtOf(ls'[SlotKey(i)]) < now')
        => listBackups(ls', BACKUPS_TO_KEEP)[1].index
             = NextSlot(ls, BACKUPS_TO_KEEP)]_vars

C27_Witness ==
  LET b == listBackups(ls, BACKUPS_TO_KEEP)
  IN /\ lastOp = "load" /\ nops = 1
     /\ Len(b) = 2
     /\ b[1].index = 2 /\ b[1].updated_at = now
     /\ b[2].index = 1 /\ b[2].updated_at = StartNow
     /\ now > StartNow

----------------------------------------------------------------------------
(* Name resolution: previewCardByName (App.tsx:147-239) over                *)
(* fetchByExactName, searchItalianByName and fetchEnglishByOracleId         *)
(* (part_001:47-98), one action for each stretch between two awaits         *)

MaxCalls == 2
MaxCandidates == 8

\* the texts previewCardByName is called with, trimmed and not empty
PreviewInputs == {"Fulmine"}

\* an Italian printing as /cards/search returns it
ItCard(id, oracle, printed) ==
  [id |-> id, oracle_id |-> oracle, lang |-> "it", name |-> "X",
   printed_name |-> printed, set |-> "lea", collector_number |-> "161",
   rarity |-> "common", type_line |-> "Instant", mana_cost |-> "{R}",
   scryfall_uri |-> "uri", small |-> Undefined]

EnCard == Card("a", "X", "{R}", "a.jpg")
NoCard == [id |-> Undefined]

\* ten printings of nine cards, the second a reprint of the first
ManyPrintings ==
  <<ItCard("j1", "p1", "Fulmine"), ItCard("j0", "p1", "Fulmine"),
    ItCard("j2", "p2", "Fulmine"), ItCard("j3", "p3", "Fulmine"),
    ItCard("j4", "p4", "Fulmine"), ItCard("j5", "p5", "Fulmine"),
    ItCard("j6", "p6", "Fulmine"), ItCard("j7", "p7", "Fulmine"),
    ItCard("j8", "p8", "Fulmine"), ItCard("j9", "p9", "Fulmine")>>

\* what /cards/named and /cards/search may answer
NamedAnswers == {HttpOk(EnCard), HttpFail(404), NetworkDown}
ItLists == {<<>>,
            <<ItCard("i1", "o1", "Fulmine")>>,
            <<ItCard("i4", Undefined, Undefined)>>,
            <<ItCard("i5", Undefined, "Fulmine"), ItCard("i6", Undefined, "Fulmine")>>,
            ManyPrintings}
ItAnswers == {HttpOk(ListBody(l)) : l \in ItLists} \cup {HttpFail(404)}
EnAnswers == {HttpOk(ListBody(<<>>)), HttpOk(ListBody(<<EnCard>>)), HttpFail(500)}

\* how a fetch ended: a response that is ok, one that is not, no response
AnswerKind(res) == IF ~res.net THEN "down" ELSE IF res.ok THEN "ok" ELSE "bad"

\* the fuzzy request sent whatever the exact request was answered
NeedsFuzzy_Always(res) == TRUE

\* fetchByExactName goes on to the fuzzy request (part_001:53)
NeedsFuzzy(res) == ~res.ok

\* searchCards (part_001:63-70): data?.data ?? [], an error of getJson passed on
searchCards(res) ==
  LET data == getJson(res)
  IN IF ~data.ok THEN data
     ELSE IF "data" \notin DOMAIN data.val THEN Ok(<<>>)
     ELSE Ok(data.val.data)

\* promise.catch(() => [])
OrEmpty(r) == IF r.ok THEN r.val ELSE <<>>

\* a search that never finds the English printing
FirstOrNull_None(r) == NoCard

\* res[0] ?? null (part_001:97)
FirstOrNull(r) == IF r = <<>> THEN NoCard ELSE r[1]

\* displayName (part_001:100-102)
displayName(card) ==
  IF card.printed_name # Undefined THEN card.printed_name ELSE card.name

\* a key of the name alone
CandidateKey_NameOnly(c) == <<"", displayName(c)>>

\* (c.oracle_id ?? c.id) + "|" + (c.printed_name ?? c.name), as its two parts
CandidateKey(c) ==
  <<IF c.oracle_id # Undefined THEN c.oracle_id ELSE c.id, displayName(c)>>

RECURSIVE BuildCandidates(_, _, _)
\* the loop of App.tsx:188-198: first occurrences by key, at most 8
BuildCandidates(itMatches, seen, list) ==
  IF itMatches = <<>> \/ Len(list) >= MaxCandidates THEN list
  ELSE IF CandidateKey(itMatches[1]) \in seen
    THEN BuildCandidates(Tail(itMatches), seen, list)
  ELSE BuildCandidates(Tail(itMatches), seen \cup {CandidateKey(itMatches[1])},
                       Append(list, [itCard |-> itMatches[1],
                                     itName |-> displayName(itMatches[1])]))

\* the test of App.tsx:201 with 0 in the place of 1
IsAmbiguous_One(list) == Len(list) > 0

\* if (list.length > 1)
IsAmbiguous(list) == Len(list) > 1

\* the history of a call: a request sent, an answer to a request of
\* fetchByExactName heard, the call ended by a setter
Asked(c, pc) == [c EXCEPT !.pc = pc, !.reqs = Append(@, pc)]
Heard(c, res) == [c EXCEPT !.answers = Append(@, AnswerKind(res))]
Ended(c, setter) == [c EXCEPT !.pc = "done", !.sets = Append(@, setter)]

\* what the steps of a call leave alone
offPreview == <<cube, ls, now, lastCheckpointRef, dirtyRef, lastOp, nops, nticks,
                firstChangeRotated, cacheRef, alerted, inflight, issued, shownReq,
                ringVars>>

\* App.tsx:147-159: the call up to its first await
StartPreview(input) ==
  /\ Len(calls) < MaxCalls
  /\ calls' = Append(calls, [kind |-> "preview", input |-> input, pc |-> "exact",
                             reqs |-> <<"exact">>, answers |-> <<>>,
                             fetched |-> "no", only |-> NoCard, sets |-> <<>>])
  /\ isLoading' = TRUE
  /\ error' = Undefined
  /\ pending' = NoPending
  /\ candidates' = NoCandidates
  /\ UNCHANGED <<pendingQty, query, suggestions, timer>>
  /\ UNCHANGED offPreview

\* the call goes on to another await: no state of the page is set
Await(i, c) ==
  /\ calls' = [calls EXCEPT ![i] = c]
  /\ UNCHANGED <<pending, pendingQty, error, candidates, isLoading, query,
                 suggestions, timer>>
  /\ UNCHANGED offPreview

\* App.tsx:160-174 (direct, no finally runs) and App.tsx:222-233, 237
Resolved(i, c, card, via) ==
  /\ calls' = [calls EXCEPT ![i] = Ended(c, "pending")]
  /\ pending' = IF via
                  THEN [card |-> card, thumb |-> getThumb(card),
                        matchedViaItalian |-> TRUE, italianName |-> c.only.itName]
                ELSE [card |-> card, thumb |-> getThumb(card),
                      matchedViaItalian |-> FALSE]
  /\ pendingQty' = Fin(1)
  /\ query' = ""
  /\ suggestions' = <<>>
  /\ timer' = TimerAfter("")
  /\ isLoading' = IF via THEN FALSE ELSE isLoading
  /\ UNCHANGED <<error, candidates>>
  /\ UNCHANGED offPreview

\* App.tsx:201-207, 237
Ambiguous(i, c, list) ==
  /\ calls' = [calls EXCEPT ![i] = Ended(c, "candidates")]
  /\ candidates' = [input |-> c.input, list |-> list]
  /\ query' = ""
  /\ suggestions' = <<>>
  /\ timer' = TimerAfter("")
  /\ isLoading' = FALSE
  /\ UNCHANGED <<pending, pendingQty, error>>
  /\ UNCHANGED offPreview

\* setError(msg); return, then the finally (App.tsx:183, 213, 218, 237)
NotFound(i, c, msg) ==
  /\ calls' = [calls EXCEPT ![i] = Ended(c, "error")]
  /\ error' = msg
  /\ isLoading' = FALSE
  /\ UNCHANGED <<pending, pendingQty, candidates, query, suggestions, timer>>
  /\ UNCHANGED offPreview

\* fetchByExactName threw, the catch of App.tsx:175 swallowed it, and
\* searchItalianByName sends its exact search (part_001:81-82)
ToItalian(i, c) == Await(i, Asked([c EXCEPT !.fetched = "failed"], "itExact"))

\* part_001:52-53: the exact request settles
ExactAnswered(i, res) ==
  /\ i \in 1..Len(calls)
  /\ calls[i].pc = "exact"
  /\ IF ~res.net THEN ToItalian(i, Heard(calls[i], res))
     ELSE IF ~NeedsFuzzy(res)
       THEN Resolved(i, [Heard(calls[i], res) EXCEPT !.fetched = "ok"], res.body, FALSE)
     ELSE Await(i, Asked(Heard(calls[i], res), "fuzzy"))

\* part_001:58-60: the fuzzy request settles
FuzzyAnswered(i, res) ==
  /\ i \in 1..Len(calls)
  /\ calls[i].pc = "fuzzy"
  /\ IF res.net /\ res.ok
       THEN Resolved(i, [Heard(calls[i], res) EXCEPT !.fetched = "ok"], res.body, FALSE)
     ELSE ToItalian(i, Heard(calls[i], res))

\* App.tsx:182-220 with the matches searchItalianByName returned
AfterItalian(i, c, itMatches) ==
  IF Len(itMatches) = 0
    THEN NotFound(i, c, "Nessun risultato.")
  ELSE LET list == BuildCandidates(itMatches, {}, <<>>)
       IN IF IsAmbiguous(list) THEN Ambiguous(i, c, list)
          ELSE IF list[1].itCard.oracle_id = Undefined
            THEN NotFound(i, c, "Trovata una stampa IT, ma manca oracle_id per mappare in inglese.")
          ELSE Await(i, Asked([c EXCEPT !.only = list[1]], "en"))

\* part_001:82-87: the exact search settles
ItExactAnswered(i, res) ==
  /\ i \in 1..Len(calls)
  /\ calls[i].pc = "itExact"
  /\ IF Len(OrEmpty(searchCards(res))) > 0
       THEN AfterItalian(i, calls[i], OrEmpty(searchCards(res)))
     ELSE Await(i, Asked(calls[i], "itLoose"))

\* part_001:87-88: the loose search settles
ItLooseAnswered(i, res) ==
  /\ i \in 1..Len(calls)
  /\ calls[i].pc = "itLoose"
  /\ AfterItalian(i, calls[i], OrEmpty(searchCards(res)))

\* part_001:96-97 and App.tsx:216-233: the search by oracle id settles
EnAnswered(i, res) ==
  /\ i \in 1..Len(calls)
  /\ calls[i].pc = "en"
  /\ IF FirstOrNull(OrEmpty(searchCards(res))) = NoCard
       THEN NotFound(i, calls[i],
                     "Trovata stampa IT ma non riesco a trovare la corrispondente EN.")
     ELSE Resolved(i, calls[i], FirstOrNull(OrEmpty(searchCards(res))), TRUE)

\* the candidate buttons pressed: the first and the second of the list
ChoiceInputs == 1..2

\* chooseCandidate(c) for the k-th button of the candidate list, up to its
\* await (App.tsx:241-247); the buttons are disabled while isLoading
\* (App.tsx:584). Without an oracle_id the call throws before any await and
\* ends in its catch and finally (App.tsx:246, 261, 263)
StartChoose(k) ==
  /\ Len(calls) < MaxCalls
  /\ candidates # NoCandidates
  /\ ~isLoading
  /\ k \in 1..Len(candidates.list)
  /\ LET c == [kind |-> "choose", input |-> candidates.input, pc |-> "chooseEn",
               reqs |-> <<>>, answers |-> <<>>, fetched |-> "no",
               only |-> candidates.list[k], sets |-> <<>>]
     IN IF candidates.list[k].itCard.oracle_id = Undefined
          THEN /\ calls' = Append(calls, Ended(c, "error"))
               /\ error' = "Candidato senza oracle_id (impossibile mappare)."
               /\ isLoading' = FALSE
        ELSE /\ calls' = Append(calls, Asked(c, "chooseEn"))
             /\ error' = Undefined
             /\ isLoading' = TRUE
  /\ UNCHANGED <<pending, pendingQty, candidates, query, suggestions, timer>>
  /\ UNCHANGED offPreview

\* App.tsx:250-259, 263
Chosen(i, c, card) ==
  /\ calls' = [calls EXCEPT ![i] = Ended(c, "pending")]
  /\ candidates' = NoCandidates
  /\ pending' = [card |-> card, thumb |-> getThumb(card),
                 matchedViaItalian |-> TRUE, italianName |-> c.only.itName]
  /\ pendingQty' = Fin(1)
  /\ isLoading' = FALSE
  /\ UNCHANGED <<error, query, suggestions, timer>>
  /\ UNCHANGED offPreview

\* part_001:96-97 and App.tsx:248-263: the search by oracle id of
\* chooseCandidate settles
ChooseAnswered(i, res) ==
  /\ i \in 1..Len(calls)
  /\ calls[i].pc = "chooseEn"
  /\ IF FirstOrNull(OrEmpty(searchCards(res))) = NoCard
       THEN NotFound(i, calls[i], "Non riesco a trovare la corrispondente EN.")
     ELSE Chosen(i, calls[i], FirstOrNull(OrEmpty(searchCards(res))))

PreviewAnswers ==
  \/ \E i \in 1..MaxCalls, res \in NamedAnswers : ExactAnswered(i, res)
  \/ \E i \in 1..MaxCalls, res \in NamedAnswers : FuzzyAnswered(i, res)
  \/ \E i \in 1..MaxCalls, res \in ItAnswers : ItExactAnswered(i, res)
  \/ \E i \in 1..MaxCalls, res \in ItAnswers : ItLooseAnswered(i, res)
  \/ \E i \in 1..MaxCalls, res \in EnAnswers : EnAnswered(i, res)
  \/ \E i \in 1..MaxCalls, res \in EnAnswers : ChooseAnswered(i, res)

PreviewNext ==
  \/ \E input \in PreviewInputs : StartPreview(input)
  \/ \E k \in ChoiceInputs : StartChoose(k)
  \/ PreviewAnswers

\* every fetch settles: the browser answers or rejects each request
SpecPreview == Init /\ [][PreviewNext]_vars /\ WF_vars(PreviewAnswers)

\* the calls that have ended
DoneCalls == {i \in 1..Len(calls) : calls[i].pc = "done"}

\* C16: every previewCardByName call with a text that is not empty ends, and
\* ends in exactly one of three ways: a pending card set (Resolved), a list
\* of at least 2 candidates set (Ambiguous), or an error message set
\* (NotFound); a call whose fetchByExactName returned a card ends Resolved
\* with matchedViaItalian = FALSE.
C16_OneOutcome ==
  /\ \A n \in 1..MaxCalls : (Len(calls) >= n) ~> (n \in DoneCalls)
  /\ [](\A i \in DoneCalls :
          /\ Len(calls[i].sets) = 1
          /\ calls[i].sets[1] \in {"pending", "candidates", "error"}
          /\ calls[i].fetched = "ok" => calls[i].sets = <<"pending">>)
  /\ [][\A i \in 1..MaxCalls :
          (i \in DoneCalls' /\ i \notin DoneCalls) =>
            /\ calls'[i].sets = <<"pending">> => pending' # NoPending
            /\ calls'[i].sets = <<"candidates">> =>
                 candidates' # NoCandidates /\ Len(candidates'.list) >= 2
            /\ calls'[i].sets = <<"error">> => error' # Undefined
            /\ calls'[i].fetched = "ok" =>
                 pending' # NoPending /\ pending'.matchedViaItalian = FALSE]_vars

C16_Witness ==
  /\ DoneCalls = {1, 2}
  /\ calls[1].sets = <<"candidates">>
  /\ calls[2].fetched = "ok"
  /\ pending # NoPending /\ pending.matchedViaItalian = FALSE

\* the calls of previewCardByName
PreviewCalls == {i \in 1..Len(calls) : calls[i].kind = "preview"}

\* the requests fetchByExactName sent in a call, and how they were answered
NamedReqs(c) == SelectSeq(c.reqs, LAMBDA r : r \in {"exact", "fuzzy"})
NamedAnswered(c) == c.answers

\* what C17 says of the order of the requests: the exact request first, one
\* fuzzy request if and only if the exact request was answered with a status
\* that is not a success, nothing after it
C17_Order(c) ==
  /\ NamedReqs(c) \in {<<"exact">>, <<"exact", "fuzzy">>}
  /\ SubSeq(c.reqs, 1, Len(NamedReqs(c))) = NamedReqs(c)
  /\ (Len(NamedReqs(c)) = 2) <=> (Len(c.answers) >= 1 /\ c.answers[1] = "bad")

\* C17 as claimed: with that order, fetchByExactName fails only when the
\* fuzzy request too was answered with a status that is not a success.
C17_FailsOnlyAfterFuzzy ==
  \A i \in PreviewCalls :
    /\ C17_Order(calls[i])
    /\ calls[i].fetched = "failed" =>
         NamedAnswered(calls[i]) = <<"bad", "bad">>

\* C17 as amended: fetchByExactName sends the exact request first; if and only
\* if that is answered with a status that is not a success it sends one fuzzy
\* request for the same name; it sends nothing more; it fails when the fuzzy
\* request too is answered with such a status, and when either request gets
\* no answer at all (fetch rejects), and in no other case.
C17_FailsAfterFuzzyOrNoAnswer ==
  \A i \in PreviewCalls :
    /\ C17_Order(calls[i])
    /\ calls[i].fetched = "failed" <=>
         NamedAnswered(calls[i]) \in {<<"bad", "bad">>, <<"down">>, <<"bad", "down">>}
    /\ calls[i].fetched = "ok" <=>
         NamedAnswered(calls[i]) \in {<<"ok">>, <<"bad", "ok">>}

C17_Witness ==
  /\ Len(calls) = 2
  /\ calls[1].fetched = "failed" /\ NamedAnswered(calls[1]) = <<"bad", "bad">>
  /\ calls[2].fetched = "ok" /\ NamedAnswered(calls[2]) = <<"bad", "ok">>

\* the first occurrences, by the key K, in a list of search results, in the
\* order of the results and cut after MaxCandidates of them
FirstPositions(m, K(_)) ==
  {n \in 1..Len(m) : \A j \in 1..(n - 1) : K(m[j]) # K(m[n])}
FirstOccurrences(m, K(_)) ==
  LET P == FirstPositions(m, K)
  IN [r \in 1..Min2(MaxCandidates, Cardinality(P)) |->
        m[CHOOSE n \in P : Cardinality({j \in P : j <= n}) = r]]

\* the pair C23 names, and the pair with the card's own id in the place of
\* an oracle id that is missing
OraclePair(c) == <<c.oracle_id, displayName(c)>>
OracleOrIdPair(c) ==
  <<IF c.oracle_id = Undefined THEN c.id ELSE c.oracle_id, displayName(c)>>

\* the candidates shown for a list of results
AsCandidates(cards) ==
  [n \in 1..Len(cards) |-> [itCard |-> cards[n], itName |-> displayName(cards[n])]]

\* call i heard the matches of searchItalianByName in this step
ItalianHeard(i, res) ==
  /\ Len(OrEmpty(searchCards(res))) > 0
  /\ ItExactAnswered(i, res) \/ ItLooseAnswered(i, res)

\* the candidates on display are at most MaxCandidates and no two of them
\* have the same K
CandidatesDistinct(K(_)) ==
  candidates # NoCandidates
    => /\ Len(candidates.list) <= MaxCandidates
       /\ \A a, b \in 1..Len(candidates.list) :
            a # b => K(candidates.list[a].itCard) # K(candidates.list[b].itCard)

\* a call that heard its matches ends Ambiguous exactly when more than one
\* first occurrence by K remains, with the list of them
AmbiguousWithFirsts(K(_)) ==
  \A i \in 1..MaxCalls, res \in ItAnswers :
    ItalianHeard(i, res)
      => LET e == FirstOccurrences(OrEmpty(searchCards(res)), K)
         IN IF Len(e) > 1
              THEN /\ calls'[i].sets = <<"candidates">>
                   /\ candidates' = [input |-> calls[i].input, list |-> AsCandidates(e)]
            ELSE calls'[i].sets # <<"candidates">>

\* C23 as claimed: the candidate list has no two candidates with the same
\* (oracle id, localized name) pair, has at most 8 entries, and is the list
\* of first occurrences by that pair in the order of the results; when more
\* than one candidate remains the call ends Ambiguous with exactly this list.
C23_DedupByOraclePair ==
  /\ [](CandidatesDistinct(OraclePair))
  /\ [][AmbiguousWithFirsts(OraclePair)]_vars

\* C23 as amended: the same with the pair (oracle id, or the card's own id
\* when it has no oracle id; localized name), the list being the first 8 of
\* the first occurrences.
C23_DedupByOracleOrIdPair ==
  /\ [](CandidatesDistinct(OracleOrIdPair))
  /\ [][AmbiguousWithFirsts(OracleOrIdPair)]_vars

C23_Witness ==
  /\ candidates # NoCandidates
  /\ Len(candidates.list) = MaxCandidates
  /\ candidates.list[2].itCard.id = "j2"
  /\ candidates.list[MaxCandidates].itCard.id = "j8"

\* the one candidate left of the matches call i heard in this step
OnlyCandidate(i, res) ==
  /\ ItalianHeard(i, res)
  /\ Len(FirstOccurrences(OrEmpty(searchCards(res)), OracleOrIdPair)) = 1

\* call i ended NotFound in this step and set no pending card
EndsNotFound(i) ==
  /\ calls'[i].sets = <<"error">>
  /\ error' # Undefined
  /\ pending' = pending
  /\ Len(calls) = 1 => pending' = NoPending

\* what C24 says of the search that found nothing and of the answer to the
\* lookup by oracle id
C24_ZeroAndLookup ==
  /\ \A i \in 1..MaxCalls, res \in ItAnswers :
       (ItLooseAnswered(i, res) /\ Len(OrEmpty(searchCards(res))) = 0)
         => EndsNotFound(i) /\ calls'[i].reqs = calls[i].reqs
  /\ \A i \in 1..MaxCalls, res \in EnAnswers :
       EnAnswered(i, res)
         => IF res.ok /\ "data" \in DOMAIN res.body /\ Len(res.body.data) > 0
              THEN /\ calls'[i].sets = <<"pending">>
                   /\ pending'.card = res.body.data[1]
                   /\ pending'.matchedViaItalian = TRUE
                   /\ pending'.italianName = displayName(calls[i].only.itCard)
            ELSE EndsNotFound(i)

\* C24 as claimed: when fetchByExactName failed and one candidate remains,
\* the lookup by oracle id is made; a card found ends the call Resolved with
\* matchedViaItalian = TRUE and the candidate's localized name, nothing found
\* ends it NotFound with no pending card set; a search that found no
\* printing ends the call NotFound with no lookup by oracle id.
C24_OneCandidateLooksUp ==
  [][/\ C24_ZeroAndLookup
     /\ \A i \in 1..MaxCalls, res \in ItAnswers :
          OnlyCandidate(i, res)
            => calls'[i].pc = "en" /\ calls'[i].reqs = Append(calls[i].reqs, "en")]_vars

\* C24 as amended: the same, the lookup being made when the one candidate
\* has an oracle id; when it has none the call ends NotFound with no lookup.
C24_OneCandidateWithOracleLooksUp ==
  [][/\ C24_ZeroAndLookup
     /\ \A i \in 1..MaxCalls, res \in ItAnswers :
          OnlyCandidate(i, res)
            => IF OrEmpty(searchCards(res))[1].oracle_id # Undefined
                 THEN /\ calls'[i].pc = "en"
                      /\ calls'[i].reqs = Append(calls[i].reqs, "en")
               ELSE EndsNotFound(i) /\ calls'[i].reqs = calls[i].reqs]_vars

C24_Witness ==
  /\ Len(calls) = 1 /\ calls[1].sets = <<"pending">>
  /\ calls[1].reqs = <<"exact", "fuzzy", "itExact", "itLoose", "en">>
  /\ pending # NoPending /\ pending.matchedViaItalian
  /\ pending.italianName = "Fulmine" /\ pending.card = EnCard

\* C29: whenever no call of previewCardByName or chooseCandidate is in
\* flight, isLoading is false.
C29_LoadingReleased ==
  (\A i \in 1..Len(calls) : calls[i].pc = "done") => ~isLoading

\* C30: at most one of pending and candidates is set, and a pending card is
\* set only by the call started last.
C30_OnePanelLatestCall ==
  /\ [](~(pending # NoPending /\ candidates # NoCandidates))
  /\ [][\A i \in 1..MaxCalls :
          (i \in DoneCalls' /\ i \notin DoneCalls /\ calls'[i].sets = <<"pending">>)
            => i = Len(calls)]_vars

====
